---- MODULE Spec2Model ----
(***************************************************************************)
(* terraform-provider-openai: the provider's Configure, the assistant      *)
(* resource, the assistant-file resource and the assistant data source,    *)
(* each handler one action, against a model of the remote service and of   *)
(* the host's stored state.                                                *)
(***************************************************************************)
EXTENDS Integers, Sequences, FiniteSets, TLC

\* ---------------------------------------------------------------- bounds
MaxAssistants == 2      \* assistant identifiers the remote service hands out
MaxFiles == 2           \* file identifiers the remote service hands out
MaxTools == 2           \* longest tool list of an assistant made elsewhere
MaxClock == 1           \* last reading of the wall clock

\* The empty string, as an identifier ("" is what ValueString gives for null).
EmptyId == 0

AsstIds == 1..MaxAssistants
FileIds == 1..MaxFiles
\* time.Now().Format(time.RFC850), as the reading of the clock
Times == 0..MaxClock

\* ------------------------------------------------- framework value types
\* types.String / types.Bool: null, unknown or a known value.  A null or
\* unknown value carries the zero value of its Go type.
StringNull == [k |-> "null", v |-> ""]
StringUnknown == [k |-> "unknown", v |-> ""]
StringValue(s) == [k |-> "value", v |-> s]
IdNull == [k |-> "null", v |-> EmptyId]
IdUnknown == [k |-> "unknown", v |-> EmptyId]
IdValue(i) == [k |-> "value", v |-> i]
BoolNull == [k |-> "null", v |-> FALSE]
BoolValue(b) == [k |-> "value", v |-> b]
TimeNull == [k |-> "null", v |-> 0]
TimeUnknown == [k |-> "unknown", v |-> 0]
TimeValue(t) == [k |-> "value", v |-> t]

IsNull(x) == x.k = "null"
ValueString(x) == IF x.k = "value" THEN x.v ELSE ""
ValueId(x) == IF x.k = "value" THEN x.v ELSE EmptyId
ValueBool(x) == IF x.k = "value" THEN x.v ELSE FALSE
\* A Go pointer is a sequence: <<>> is nil, <<s>> points to s.
ValueStringPointer(x) == IF x.k = "value" THEN <<x.v>> ELSE <<>>

\* An optional record (a stored record, a remote entity, a client): <<>> or <<r>>.
None == <<>>
Some(r) == <<r>>
Get(o) == o[1]

\* ------------------------------------------------------------- variables
VARIABLES
    cfgApiKey,      \* the provider block's api_key
    envApiKey,      \* OPENAI_API_KEY of the process
    configured,     \* the provider's Configure has run in this process
    resourceData,   \* resp.ResourceData of the provider's Configure
    dataSourceData, \* resp.DataSourceData of the provider's Configure
    client,         \* the client field of each resource and data source
    tflog,          \* the log entries written so far in this process
    remoteAsst,     \* the remote service's assistants, by identifier
    asstCount,      \* assistant identifiers handed out so far
    remoteFiles,    \* the remote service's files, by identifier
    fileCount,      \* file identifiers handed out so far
    attachments,    \* the remote service's <<assistant id, file id>> attachments
    nilDescKeeps,   \* the service keeps a description a modify call omits
    asstState,      \* the stored record of the assistant resource
    asstImporting,  \* asstState is an import waiting for its Read
    fileState,      \* the stored record of the assistant-file resource
    fileImporting,  \* fileState is an import waiting for its Read
    fileConfig,     \* the declaration of the assistant-file resource
    dsState,        \* the result record of the data source
    op,             \* the handler that ran last
    diags,          \* its resp.Diagnostics
    calls,          \* the remote calls it issued, in order
    createdPlan,    \* the plan of a Create nothing but Reads have followed
    updatedPlan,    \* the plan of an Update nothing has followed
    repeatedUpdate, \* the last step was that Update, applied once more
    fileRead,       \* what os.ReadFile gave the last Create of the assistant-file
    replacedId      \* the file id of the record a replacement has deleted

providerVars == <<cfgApiKey, envApiKey, configured, resourceData, dataSourceData, client, tflog>>
remoteVars == <<remoteAsst, asstCount, remoteFiles, fileCount, attachments, nilDescKeeps>>
asstVars == <<asstState, asstImporting, dsState, createdPlan, updatedPlan, repeatedUpdate>>
fileVars == <<fileState, fileImporting, fileConfig, replacedId, fileRead>>
respVars == <<op, diags, calls>>
vars == <<providerVars, remoteVars, asstVars, fileVars, respVars>>

\* -------------------------------------------------- diagnostics and calls
\* A diagnostic: its summary, and the identifier and the error message its detail
\* text is concatenated from (EmptyId, "" when the detail names none).
Diag(summary, id, err) == [summary |-> summary, id |-> id, err |-> err]

\* A remote call: the client method, the assistant and file identifiers it was
\* given, and the error it returned ("" for none).  What a create or modify
\* request carried shows in the entity the service then holds.
Call(fn, asst, file, err) == [fn |-> fn, asst |-> asst, file |-> file, err |-> err]

HasError == diags # <<>>

\* ------------------------------------------------------------- provider
Components == {"assistant", "assistant_file", "assistant_data_source"}

ApiKeys == {"sk-1", "sk-2"}
EnvValues == {""} \cup ApiKeys
ApiKeyConfigs == {StringNull, StringUnknown, StringValue("")} \cup {StringValue(s) : s \in ApiKeys}

\* openai.NewClient(apiKey)
NewClient(apiKey) == Some([apiKey |-> apiKey])

LogEntry(level, msg, fields) == [level |-> level, msg |-> msg, fields |-> fields]

\* Variant of ResolveApiKey: an empty explicit value falls back to the environment.
ResolveApiKeyNonEmpty(config, env) ==
    IF ~IsNull(config) /\ ValueString(config) # "" THEN ValueString(config) ELSE env

\* apiKey := os.Getenv(...); if !config.ApiKey.IsNull() { apiKey = config value }
ResolveApiKey(config, env) ==
    IF ~IsNull(config) THEN ValueString(config) ELSE env

\* resp.Diagnostics.AddAttributeError(path.Root("api_key"), ...)
MissingApiKey == Diag("Missing OpenAI API key", EmptyId, "")

\* Variant of ProviderConfigure: the last log entry carries the key.
ProviderConfigureLogsKey ==
    /\ ~configured
    /\ LET apiKey == ResolveApiKey(cfgApiKey, envApiKey)
           entry == LogEntry("info", "Configuring OpenAi client", {})
       IN  IF apiKey = ""
           THEN /\ diags' = <<MissingApiKey>>
                /\ tflog' = tflog \o <<entry>>
                /\ UNCHANGED <<resourceData, dataSourceData>>
           ELSE /\ diags' = <<>>
                /\ dataSourceData' = NewClient(apiKey)
                /\ resourceData' = NewClient(apiKey)
                /\ tflog' = tflog \o
                      << entry,
                         LogEntry("debug", "Creating OpenAI client", {}),
                         LogEntry("info", "Configured OpenAI client",
                                  {<<"success", "true">>, <<"api_key", apiKey>>}) >>
    /\ configured' = TRUE
    /\ op' = "ProviderConfigure"
    /\ calls' = <<>>
    /\ UNCHANGED <<cfgApiKey, envApiKey, client, remoteVars, asstVars, fileVars>>

\* openaiProvider.Configure
ProviderConfigure ==
    /\ ~configured
    /\ LET apiKey == ResolveApiKey(cfgApiKey, envApiKey)
           entry == LogEntry("info", "Configuring OpenAi client", {})
       IN  IF apiKey = ""
           THEN /\ diags' = <<MissingApiKey>>
                /\ tflog' = tflog \o <<entry>>
                /\ UNCHANGED <<resourceData, dataSourceData>>
           ELSE /\ diags' = <<>>
                /\ dataSourceData' = NewClient(apiKey)
                /\ resourceData' = NewClient(apiKey)
                /\ tflog' = tflog \o
                      << entry,
                         LogEntry("debug", "Creating OpenAI client", {}),
                         LogEntry("info", "Configured OpenAI client", {<<"success", "true">>}) >>
    /\ configured' = TRUE
    /\ op' = "ProviderConfigure"
    /\ calls' = <<>>
    /\ UNCHANGED <<cfgApiKey, envApiKey, client, remoteVars, asstVars, fileVars>>

\* req.ProviderData of a component's Configure
ProviderDataFor(c) == IF c = "assistant_data_source" THEN dataSourceData ELSE resourceData

\* assistantResource.Configure, assistantFileResource.Configure,
\* assistantDataSource.Configure (the provider hands over nothing but a client,
\* so the type assertion holds)
ComponentConfigure(c) ==
    /\ client' = IF ProviderDataFor(c) = None THEN client
                 ELSE [client EXCEPT ![c] = ProviderDataFor(c)]
    /\ op' = "Configure"
    /\ diags' = <<>>
    /\ calls' = <<>>
    /\ UNCHANGED <<cfgApiKey, envApiKey, configured, resourceData, dataSourceData, tflog,
                   remoteVars, asstVars, fileVars>>

\* A new run of the host: a new process, with its own configuration and environment.
NewRun ==
    /\ cfgApiKey' \in ApiKeyConfigs
    /\ envApiKey' \in EnvValues
    /\ configured' = FALSE
    /\ resourceData' = None
    /\ dataSourceData' = None
    /\ client' = [c \in Components |-> None]
    /\ tflog' = <<>>
    /\ op' = "NewRun"
    /\ diags' = <<>>
    /\ calls' = <<>>
    /\ UNCHANGED <<remoteVars, asstVars, fileVars>>

\* --------------------------------------------------- the remote service
Names == {"n1", "n2"}
Descriptions == {"d1"}
Models == {"gpt-4"}
Instructions == {"i1"}

\* openai.AssistantTool{Type, Function}
Tool(type, function) == [type |-> type, function |-> function]
AssistantToolTypeRetrieval == "retrieval"
AssistantToolTypeCodeInterpreter == "code_interpreter"
AssistantToolTypeFunction == "function"
RetrievalTool == Tool(AssistantToolTypeRetrieval, <<>>)
CodeInterpreterTool == Tool(AssistantToolTypeCodeInterpreter, <<>>)
FunctionTool == Tool(AssistantToolTypeFunction, <<"fn">>)
Tools == {RetrievalTool, CodeInterpreterTool, FunctionTool}

\* The tool tags of a tool list.
ToolTags(tools) == {tools[i].type : i \in 1..Len(tools)}

HasAssistant(id) == id \in AsstIds /\ remoteAsst[id] # None

\* The errors a call on an entity can return: none ("") only if the entity exists.
CallErrs(exists) == IF exists THEN {"", "server_error"} ELSE {"not_found"}

\* The service stores a create payload as sent.
StoredAssistant(req) ==
    [name |-> req.name, description |-> req.description, model |-> req.model,
     instructions |-> req.instructions, tools |-> req.tools]

\* The service replaces what a modify payload carries; a field the payload
\* omits (a nil description) is kept or cleared, as the service decides.
ModifiedAssistant(old, req) ==
    [name |-> req.name,
     description |-> IF req.description = <<>> /\ nilDescKeeps THEN old.description
                     ELSE req.description,
     model |-> req.model, instructions |-> req.instructions, tools |-> req.tools]

\* ------------------------------------------------- the assistant resource
AssistantConfigs ==
    [name : {StringValue(s) : s \in Names},
     description : {StringNull} \cup {StringValue(s) : s \in Descriptions},
     model : {StringValue(s) : s \in Models},
     instructions : {StringValue(s) : s \in Instructions},
     enable_retrieval : {BoolNull, BoolValue(TRUE)},
     enable_code_interpreter : {BoolNull, BoolValue(TRUE)}]

\* Variant of BoolDefault: the attribute has no default.
BoolDefaultNone(x) == x

\* booldefault.StaticBool(false)
BoolDefault(x) == IF IsNull(x) THEN BoolValue(FALSE) ELSE x

\* The plan the host builds from a declaration under assistantResource.Schema:
\* id is computed and keeps the stored value, the flags default to false,
\* last_updated is computed.
AssistantPlan(cfg, prior) ==
    [id |-> IF prior = None THEN IdUnknown ELSE Get(prior).id,
     name |-> cfg.name, description |-> cfg.description, model |-> cfg.model,
     instructions |-> cfg.instructions,
     enable_retrieval |-> BoolDefault(cfg.enable_retrieval),
     enable_code_interpreter |-> BoolDefault(cfg.enable_code_interpreter),
     last_updated |-> TimeUnknown]

\* slices.Contains
SlicesContains(s, e) == \E i \in 1..Len(s) : s[i] = e

\* Variant of AssistantRequest: the retrieval tag follows the other flag.
AssistantRequestSwapped(plan) ==
    [name |-> ValueStringPointer(plan.name),
     description |-> ValueStringPointer(plan.description),
     model |-> ValueString(plan.model),
     instructions |-> ValueStringPointer(plan.instructions),
     tools |-> (IF ValueBool(plan.enable_code_interpreter) THEN <<RetrievalTool>> ELSE <<>>)
               \o (IF ValueBool(plan.enable_code_interpreter) THEN <<CodeInterpreterTool>> ELSE <<>>)]

\* Variant of AssistantRequest: the description is a pointer to ValueString().
AssistantRequestEmptyDescription(plan) ==
    [name |-> ValueStringPointer(plan.name),
     description |-> <<ValueString(plan.description)>>,
     model |-> ValueString(plan.model),
     instructions |-> ValueStringPointer(plan.instructions),
     tools |-> (IF ValueBool(plan.enable_retrieval) THEN <<RetrievalTool>> ELSE <<>>)
               \o (IF ValueBool(plan.enable_code_interpreter) THEN <<CodeInterpreterTool>> ELSE <<>>)]

\* The openai.AssistantRequest that Create and Update build from the plan.
AssistantRequest(plan) ==
    [name |-> ValueStringPointer(plan.name),
     description |-> ValueStringPointer(plan.description),
     model |-> ValueString(plan.model),
     instructions |-> ValueStringPointer(plan.instructions),
     tools |-> (IF ValueBool(plan.enable_retrieval) THEN <<RetrievalTool>> ELSE <<>>)
               \o (IF ValueBool(plan.enable_code_interpreter) THEN <<CodeInterpreterTool>> ELSE <<>>)]

\* assistantResource.Create
AssistantCreate ==
    /\ client["assistant"] # None
    /\ asstState = None
    /\ asstCount < MaxAssistants
    /\ \E cfg \in AssistantConfigs, err \in CallErrs(TRUE), now \in Times :
         LET plan == AssistantPlan(cfg, None)
             req == AssistantRequest(plan)
             id == asstCount + 1
         IN  /\ calls' = <<Call("CreateAssistant", EmptyId, EmptyId, err)>>
             /\ IF err # ""
                THEN /\ diags' = <<Diag("Error creating assistant", EmptyId, err)>>
                     /\ UNCHANGED <<remoteAsst, asstCount, asstState, createdPlan>>
                ELSE /\ diags' = <<>>
                     /\ remoteAsst' = [remoteAsst EXCEPT ![id] = Some(StoredAssistant(req))]
                     /\ asstCount' = id
                     /\ asstState' = Some([plan EXCEPT !.id = IdValue(id),
                                                       !.last_updated = TimeValue(now)])
                     /\ createdPlan' = Some(plan)
    /\ op' = "AssistantCreate"
    /\ updatedPlan' = None
    /\ repeatedUpdate' = FALSE
    /\ UNCHANGED <<providerVars, remoteFiles, fileCount, attachments, nilDescKeeps,
                   asstImporting, dsState, fileVars>>

\* assistantResource.Read, from the response to the state: the response's fields
\* overwrite the stored ones, the description only when the response has one.
ReadAssistant(state, id, assistant) ==
    [state EXCEPT
       !.id = IdValue(id),
       !.name = StringValue(assistant.name[1]),
       !.model = StringValue(assistant.model),
       !.instructions = StringValue(assistant.instructions[1]),
       !.enable_retrieval = BoolValue(SlicesContains(assistant.tools, RetrievalTool)),
       !.enable_code_interpreter = BoolValue(SlicesContains(assistant.tools, CodeInterpreterTool)),
       !.description = IF assistant.description # <<>>
                       THEN StringValue(assistant.description[1]) ELSE state.description]

\* *assistant.Name and *assistant.Instructions: a nil pointer ends the handler
\* in a runtime panic.
Dereferences(assistant) == assistant.name # <<>> /\ assistant.instructions # <<>>

\* Variant of AfterFailedRead: a failed Read removes the record from state.
AfterFailedReadRemoves(state, importing) == None

\* What the host keeps of a record whose Read failed: the record as it was, or
\* nothing when the record was an import waiting for this Read.
AfterFailedRead(state, importing) == IF importing THEN None ELSE state

\* assistantResource.Read
AssistantRead ==
    /\ client["assistant"] # None
    /\ asstState # None
    /\ LET state == Get(asstState)
           id == ValueId(state.id)
       IN  \E err \in CallErrs(HasAssistant(id)) :
             /\ calls' = <<Call("RetrieveAssistant", id, EmptyId, err)>>
             /\ IF err # ""
                THEN /\ diags' = <<Diag("Error Reading OpenAI assistant", id, err)>>
                     /\ asstState' = AfterFailedRead(asstState, asstImporting)
                ELSE IF ~Dereferences(Get(remoteAsst[id]))
                THEN /\ diags' = <<Diag("panic: nil pointer dereference", id, "")>>
                     /\ asstState' = AfterFailedRead(asstState, asstImporting)
                ELSE /\ diags' = <<>>
                     /\ asstState' = Some(ReadAssistant(state, id, Get(remoteAsst[id])))
    /\ asstImporting' = FALSE
    /\ op' = "AssistantRead"
    /\ repeatedUpdate' = FALSE
    /\ UNCHANGED <<providerVars, remoteVars, dsState, createdPlan, updatedPlan, fileVars>>

\* Variant of AssistantUpdate: the plan is stored although the retrieve call failed.
AssistantUpdateStoresUnconfirmed ==
    /\ client["assistant"] # None
    /\ asstState # None
    /\ ~asstImporting
    /\ \E cfg \in AssistantConfigs, now \in Times :
         LET plan == AssistantPlan(cfg, asstState)
             req == AssistantRequest(plan)
             id == ValueId(plan.id)
         IN  \E err1 \in CallErrs(HasAssistant(id)) :
               LET modify == Call("ModifyAssistant", id, EmptyId, err1)
               IN  IF err1 # ""
                   THEN /\ calls' = <<modify>>
                        /\ diags' = <<Diag("Error Updating OpenAI Assistant", EmptyId, err1)>>
                        /\ repeatedUpdate' = FALSE
                        /\ UNCHANGED <<remoteAsst, asstState, updatedPlan>>
                   ELSE \E err2 \in CallErrs(TRUE) :
                        /\ remoteAsst' = [remoteAsst EXCEPT
                               ![id] = Some(ModifiedAssistant(Get(remoteAsst[id]), req))]
                        /\ calls' = <<modify, Call("RetrieveAssistant", id, EmptyId, err2)>>
                        /\ asstState' = Some([plan EXCEPT !.last_updated = TimeValue(now)])
                        /\ IF err2 # ""
                           THEN /\ diags' = <<Diag("Error Reading OpenAI Assistant", id, err2)>>
                                /\ updatedPlan' = None
                                /\ repeatedUpdate' = FALSE
                           ELSE /\ diags' = <<>>
                                /\ updatedPlan' = Some(plan)
                                /\ repeatedUpdate' = (updatedPlan = Some(plan))
    /\ op' = "AssistantUpdate"
    /\ createdPlan' = None
    /\ UNCHANGED <<providerVars, asstCount, remoteFiles, fileCount, attachments, nilDescKeeps,
                   asstImporting, dsState, fileVars>>

\* assistantResource.Update
AssistantUpdate ==
    /\ client["assistant"] # None
    /\ asstState # None
    /\ ~asstImporting
    /\ \E cfg \in AssistantConfigs, now \in Times :
         LET plan == AssistantPlan(cfg, asstState)
             req == AssistantRequest(plan)
             id == ValueId(plan.id)
         IN  \E err1 \in CallErrs(HasAssistant(id)) :
               LET modify == Call("ModifyAssistant", id, EmptyId, err1)
               IN  IF err1 # ""
                   THEN /\ calls' = <<modify>>
                        /\ diags' = <<Diag("Error Updating OpenAI Assistant", EmptyId, err1)>>
                        /\ repeatedUpdate' = FALSE
                        /\ UNCHANGED <<remoteAsst, asstState, updatedPlan>>
                   ELSE \E err2 \in CallErrs(TRUE) :
                        /\ remoteAsst' = [remoteAsst EXCEPT
                               ![id] = Some(ModifiedAssistant(Get(remoteAsst[id]), req))]
                        /\ calls' = <<modify, Call("RetrieveAssistant", id, EmptyId, err2)>>
                        /\ IF err2 # ""
                           THEN /\ diags' = <<Diag("Error Reading OpenAI Assistant", id, err2)>>
                                /\ updatedPlan' = None
                                /\ repeatedUpdate' = FALSE
                                /\ UNCHANGED asstState
                           ELSE /\ diags' = <<>>
                                /\ updatedPlan' = Some(plan)
                                /\ repeatedUpdate' = (updatedPlan = Some(plan))
                                /\ asstState' = Some([plan EXCEPT !.last_updated = TimeValue(now)])
    /\ op' = "AssistantUpdate"
    /\ createdPlan' = None
    /\ UNCHANGED <<providerVars, asstCount, remoteFiles, fileCount, attachments, nilDescKeeps,
                   asstImporting, dsState, fileVars>>

\* Variant of AssistantDelete: the error of the delete call is swallowed.
AssistantDeleteSwallowsError ==
    /\ client["assistant"] # None
    /\ asstState # None
    /\ ~asstImporting
    /\ LET id == ValueId(Get(asstState).id)
       IN  \E err \in CallErrs(HasAssistant(id)) :
             /\ calls' = <<Call("DeleteAssistant", id, EmptyId, err)>>
             /\ diags' = <<>>
             /\ remoteAsst' = IF err # "" THEN remoteAsst ELSE [remoteAsst EXCEPT ![id] = None]
             /\ asstState' = None
    /\ op' = "AssistantDelete"
    /\ createdPlan' = None
    /\ updatedPlan' = None
    /\ repeatedUpdate' = FALSE
    /\ UNCHANGED <<providerVars, asstCount, remoteFiles, fileCount, attachments, nilDescKeeps,
                   asstImporting, dsState, fileVars>>

\* assistantResource.Delete; the host drops the record when Delete reports no error.
AssistantDelete ==
    /\ client["assistant"] # None
    /\ asstState # None
    /\ ~asstImporting
    /\ LET id == ValueId(Get(asstState).id)
       IN  \E err \in CallErrs(HasAssistant(id)) :
             /\ calls' = <<Call("DeleteAssistant", id, EmptyId, err)>>
             /\ IF err # ""
                THEN /\ diags' = <<Diag("Error Deleting OpenAI Assistant", EmptyId, err)>>
                     /\ UNCHANGED <<remoteAsst, asstState>>
                ELSE /\ diags' = <<>>
                     /\ remoteAsst' = [remoteAsst EXCEPT ![id] = None]
                     /\ asstState' = None
    /\ op' = "AssistantDelete"
    /\ createdPlan' = None
    /\ updatedPlan' = None
    /\ repeatedUpdate' = FALSE
    /\ UNCHANGED <<providerVars, asstCount, remoteFiles, fileCount, attachments, nilDescKeeps,
                   asstImporting, dsState, fileVars>>

\* resource.ImportStatePassthroughID(ctx, path.Root("id"), req, resp): the
\* supplied identifier goes to id, every other attribute is null.
ImportedAssistant(id) ==
    [id |-> IdValue(id), name |-> StringNull, description |-> StringNull,
     model |-> StringNull, instructions |-> StringNull,
     enable_retrieval |-> BoolNull, enable_code_interpreter |-> BoolNull,
     last_updated |-> TimeNull]

\* assistantResource.ImportState
AssistantImport ==
    /\ client["assistant"] # None
    /\ asstState = None
    /\ \E id \in AsstIds :
         asstState' = Some(ImportedAssistant(id))
    /\ asstImporting' = TRUE
    /\ op' = "AssistantImport"
    /\ diags' = <<>>
    /\ calls' = <<>>
    /\ createdPlan' = None
    /\ updatedPlan' = None
    /\ repeatedUpdate' = FALSE
    /\ UNCHANGED <<providerVars, remoteVars, dsState, fileVars>>

\* ------------------------------------------------ the assistant data source
\* The data source's configuration: id is required, the rest is computed.
LookupConfig(id) ==
    [id |-> IdValue(id), name |-> StringNull, description |-> StringNull,
     model |-> StringNull, instructions |-> StringNull,
     enable_retrieval |-> BoolNull, enable_code_interpreter |-> BoolNull]

\* Variant of LookupAssistant: the code-interpreter flag copies the retrieval flag.
LookupAssistantOneFlag(data, id, assistant) ==
    [data EXCEPT
       !.id = IdValue(id),
       !.name = StringValue(assistant.name[1]),
       !.model = StringValue(assistant.model),
       !.instructions = StringValue(assistant.instructions[1]),
       !.enable_retrieval = BoolValue(SlicesContains(assistant.tools, RetrievalTool)),
       !.enable_code_interpreter = BoolValue(SlicesContains(assistant.tools, RetrievalTool)),
       !.description = IF assistant.description # <<>>
                       THEN StringValue(assistant.description[1]) ELSE data.description]

\* assistantDataSource.Read, from the response to the result.
LookupAssistant(data, id, assistant) ==
    [data EXCEPT
       !.id = IdValue(id),
       !.name = StringValue(assistant.name[1]),
       !.model = StringValue(assistant.model),
       !.instructions = StringValue(assistant.instructions[1]),
       !.enable_retrieval = BoolValue(SlicesContains(assistant.tools, RetrievalTool)),
       !.enable_code_interpreter = BoolValue(SlicesContains(assistant.tools, CodeInterpreterTool)),
       !.description = IF assistant.description # <<>>
                       THEN StringValue(assistant.description[1]) ELSE data.description]

\* assistantDataSource.Read
DataSourceRead ==
    /\ client["assistant_data_source"] # None
    /\ \E id \in AsstIds : \E err \in CallErrs(HasAssistant(id)) :
         /\ calls' = <<Call("RetrieveAssistant", id, EmptyId, err)>>
         /\ IF err # ""
            THEN /\ diags' = <<Diag("Unable to read OpenAI assistant", EmptyId, err)>>
                 /\ UNCHANGED dsState
            ELSE IF ~Dereferences(Get(remoteAsst[id]))
            THEN /\ diags' = <<Diag("panic: nil pointer dereference", id, "")>>
                 /\ UNCHANGED dsState
            ELSE /\ diags' = <<>>
                 /\ dsState' = Some(LookupAssistant(LookupConfig(id), id, Get(remoteAsst[id])))
    /\ op' = "DataSourceRead"
    /\ repeatedUpdate' = FALSE
    /\ UNCHANGED <<providerVars, remoteVars, asstState, asstImporting, createdPlan, updatedPlan,
                   fileVars>>

\* ------------------------------------------------------- the environment
\* The remote assistant is deleted by someone else.
ExternalDeleteAssistant ==
    /\ \E id \in AsstIds :
         /\ HasAssistant(id)
         /\ remoteAsst' = [remoteAsst EXCEPT ![id] = None]
    /\ op' = "ExternalDeleteAssistant"
    /\ diags' = <<>>
    /\ calls' = <<>>
    /\ createdPlan' = None
    /\ updatedPlan' = None
    /\ repeatedUpdate' = FALSE
    /\ UNCHANGED <<providerVars, asstCount, remoteFiles, fileCount, attachments, nilDescKeeps,
                   asstState, asstImporting, dsState, fileVars>>

\* The remote assistant is changed by someone else: its description is
\* removed, or a function tool is added to its tools.
ExternalModifyAssistant ==
    /\ \E id \in AsstIds :
         /\ HasAssistant(id)
         /\ LET a == Get(remoteAsst[id])
            IN  \/ /\ a.description # <<>>
                   /\ remoteAsst' = [remoteAsst EXCEPT ![id] = Some([a EXCEPT !.description = <<>>])]
                \/ /\ ~SlicesContains(a.tools, FunctionTool)
                   /\ remoteAsst' = [remoteAsst EXCEPT
                          ![id] = Some([a EXCEPT !.tools = Append(a.tools, FunctionTool)])]
    /\ op' = "ExternalModifyAssistant"
    /\ diags' = <<>>
    /\ calls' = <<>>
    /\ createdPlan' = None
    /\ updatedPlan' = None
    /\ repeatedUpdate' = FALSE
    /\ UNCHANGED <<providerVars, asstCount, remoteFiles, fileCount, attachments, nilDescKeeps,
                   asstState, asstImporting, dsState, fileVars>>

\* --------------------------------------------- the assistant-file resource
\* A path of the local filesystem is the sequence of its segments; <<>> is "".
PathNull == [k |-> "null", v |-> <<>>]
PathValue(p) == [k |-> "value", v |-> p]
ValuePath(x) == IF x.k = "value" THEN x.v ELSE <<>>
Paths == {<<"docs", "a.txt">>, <<"b.txt">>}

\* filepath.Base
Base(p) == IF p = <<>> THEN "." ELSE p[Len(p)]

\* os.ReadFile: an error, or the bytes (their number)
FileReads == {[err |-> TRUE, len |-> 0], [err |-> FALSE, len |-> 0], [err |-> FALSE, len |-> 1]}

HasFile(id) == id \in FileIds /\ remoteFiles[id] # None
Attached(asst, file) == <<asst, file>> \in attachments

FileConfigs == [filename : {PathValue(p) : p \in Paths}, assistant_id : {IdValue(a) : a \in AsstIds}]

\* Variant of FileRequiresReplace: filename is updatable in place.
FileRequiresReplaceAssistantOnly == {"assistant_id"}

\* assistantFileResource.Schema: the attributes with the RequiresReplace plan modifier.
FileRequiresReplace == {"filename", "assistant_id"}

\* What the host plans for the assistant-file record from the stored record and
\* the declaration: a change of a RequiresReplace attribute replaces the record
\* (Delete, then Create), any other plan for an existing record is an Update.
PlannedFileAction(state, cfg) ==
    IF state = None THEN (IF cfg = None THEN "none" ELSE "create")
    ELSE IF cfg = None THEN "delete"
    ELSE IF \E a \in FileRequiresReplace : Get(state)[a] # Get(cfg)[a] THEN "replace"
    ELSE "update"

\* Variant of FilePlan: id does not keep the stored value.
FilePlanUnknownId(cfg, prior) ==
    [id |-> IdUnknown,
     filename |-> cfg.filename, assistant_id |-> cfg.assistant_id,
     last_updated |-> TimeUnknown]

\* The plan under assistantFileResource.Schema: id is computed and keeps the
\* stored value, last_updated is computed.
FilePlan(cfg, prior) ==
    [id |-> IF prior = None THEN IdUnknown ELSE Get(prior).id,
     filename |-> cfg.filename, assistant_id |-> cfg.assistant_id,
     last_updated |-> TimeUnknown]

\* openai.FileBytesRequest{Name, Bytes, Purpose}, as the service stores it
FileBytesRequest(plan, len) ==
    [name |-> Base(ValuePath(plan.filename)), len |-> len, purpose |-> "assistants"]

\* Variant of FileCreateEffects: the length of the file is not looked at.
FileCreateEffectsNoLengthCheck(plan, read, err1, err2, now) ==
    LET id == fileCount + 1
        asst == ValueId(plan.assistant_id)
        upload == Call("CreateFileBytes", EmptyId, EmptyId, err1)
        attach == Call("CreateAssistantFile", asst, id, err2)
        stored == [remoteFiles EXCEPT ![id] = Some(FileBytesRequest(plan, read.len))]
    IN  IF read.err
        THEN [calls |-> <<>>, diags |-> <<Diag("Error reading file content", EmptyId, "read")>>,
              files |-> remoteFiles, count |-> fileCount, att |-> attachments, state |-> None]
        ELSE IF err1 # ""
        THEN [calls |-> <<upload>>, diags |-> <<Diag("Error creating file", EmptyId, err1)>>,
              files |-> remoteFiles, count |-> fileCount, att |-> attachments, state |-> None]
        ELSE IF err2 # ""
        THEN [calls |-> <<upload, attach>>,
              diags |-> <<Diag("Error creating assistant file", EmptyId, err2)>>,
              files |-> stored, count |-> id, att |-> attachments, state |-> None]
        ELSE [calls |-> <<upload, attach>>, diags |-> <<>>,
              files |-> stored, count |-> id, att |-> attachments \cup {<<asst, id>>},
              state |-> Some([plan EXCEPT !.id = IdValue(id), !.last_updated = TimeValue(now)])]

\* Variant of FileCreateEffects: a failed attach is followed by a delete of the upload.
FileCreateEffectsCompensating(plan, read, err1, err2, now) ==
    LET id == fileCount + 1
        asst == ValueId(plan.assistant_id)
        upload == Call("CreateFileBytes", EmptyId, EmptyId, err1)
        attach == Call("CreateAssistantFile", asst, id, err2)
        stored == [remoteFiles EXCEPT ![id] = Some(FileBytesRequest(plan, read.len))]
    IN  IF read.err
        THEN [calls |-> <<>>, diags |-> <<Diag("Error reading file content", EmptyId, "read")>>,
              files |-> remoteFiles, count |-> fileCount, att |-> attachments, state |-> None]
        ELSE IF read.len = 0
        THEN [calls |-> <<>>, diags |-> <<Diag("File is empty", EmptyId, "")>>,
              files |-> remoteFiles, count |-> fileCount, att |-> attachments, state |-> None]
        ELSE IF err1 # ""
        THEN [calls |-> <<upload>>, diags |-> <<Diag("Error creating file", EmptyId, err1)>>,
              files |-> remoteFiles, count |-> fileCount, att |-> attachments, state |-> None]
        ELSE IF err2 # ""
        THEN [calls |-> <<upload, attach, Call("DeleteFile", EmptyId, id, "")>>,
              diags |-> <<Diag("Error creating assistant file", EmptyId, err2)>>,
              files |-> remoteFiles, count |-> id, att |-> attachments, state |-> None]
        ELSE [calls |-> <<upload, attach>>, diags |-> <<>>,
              files |-> stored, count |-> id, att |-> attachments \cup {<<asst, id>>},
              state |-> Some([plan EXCEPT !.id = IdValue(id), !.last_updated = TimeValue(now)])]

\* assistantFileResource.Create, from the plan, the local file as read, the
\* errors of the upload and of the attach call and the time: the calls issued,
\* the diagnostics, what the service holds afterwards and the record stored.
FileCreateEffects(plan, read, err1, err2, now) ==
    LET id == fileCount + 1
        asst == ValueId(plan.assistant_id)
        upload == Call("CreateFileBytes", EmptyId, EmptyId, err1)
        attach == Call("CreateAssistantFile", asst, id, err2)
        stored == [remoteFiles EXCEPT ![id] = Some(FileBytesRequest(plan, read.len))]
    IN  IF read.err
        THEN [calls |-> <<>>, diags |-> <<Diag("Error reading file content", EmptyId, "read")>>,
              files |-> remoteFiles, count |-> fileCount, att |-> attachments, state |-> None]
        ELSE IF read.len = 0
        THEN [calls |-> <<>>, diags |-> <<Diag("File is empty", EmptyId, "")>>,
              files |-> remoteFiles, count |-> fileCount, att |-> attachments, state |-> None]
        ELSE IF err1 # ""
        THEN [calls |-> <<upload>>, diags |-> <<Diag("Error creating file", EmptyId, err1)>>,
              files |-> remoteFiles, count |-> fileCount, att |-> attachments, state |-> None]
        ELSE IF err2 # ""
        THEN [calls |-> <<upload, attach>>,
              diags |-> <<Diag("Error creating assistant file", EmptyId, err2)>>,
              files |-> stored, count |-> id, att |-> attachments, state |-> None]
        ELSE [calls |-> <<upload, attach>>, diags |-> <<>>,
              files |-> stored, count |-> id, att |-> attachments \cup {<<asst, id>>},
              state |-> Some([plan EXCEPT !.id = IdValue(id), !.last_updated = TimeValue(now)])]

\* assistantFileResource.Create
FileCreate ==
    /\ client["assistant_file"] # None
    /\ PlannedFileAction(fileState, fileConfig) = "create"
    /\ fileCount < MaxFiles
    /\ LET plan == FilePlan(Get(fileConfig), None)
       IN  \E read \in FileReads, err1 \in CallErrs(TRUE), now \in Times :
           \E err2 \in CallErrs(HasAssistant(ValueId(plan.assistant_id))) :
             LET e == FileCreateEffects(plan, read, err1, err2, now)
             IN  /\ calls' = e.calls
                 /\ diags' = e.diags
                 /\ remoteFiles' = e.files
                 /\ fileCount' = e.count
                 /\ attachments' = e.att
                 /\ fileState' = e.state
                 /\ fileRead' = read
    /\ op' = "FileCreate"
    /\ UNCHANGED <<providerVars, remoteAsst, asstCount, nilDescKeeps, asstVars,
                   fileImporting, fileConfig, replacedId>>

\* Variant of FileRead: the attachment is queried although GetFile failed.
FileReadQueriesBoth ==
    /\ client["assistant_file"] # None
    /\ fileState # None
    /\ LET state == Get(fileState)
           id == ValueId(state.id)
           asst == ValueId(state.assistant_id)
       IN  \E err1 \in CallErrs(HasFile(id)), err2 \in CallErrs(Attached(asst, id)) :
             /\ calls' = <<Call("GetFile", EmptyId, id, err1),
                           Call("RetrieveAssistantFile", asst, id, err2)>>
             /\ IF err1 # ""
                THEN /\ diags' = <<Diag("Error Reading OpenAI file", id, err1)>>
                     /\ fileState' = AfterFailedRead(fileState, fileImporting)
                ELSE IF err2 # ""
                THEN /\ diags' = <<Diag("Error Reading OpenAI assistant file", id, err2)>>
                     /\ fileState' = AfterFailedRead(fileState, fileImporting)
                ELSE /\ diags' = <<>>
                     /\ fileState' = Some([state EXCEPT !.id = IdValue(id),
                                                        !.assistant_id = IdValue(asst)])
    /\ fileImporting' = FALSE
    /\ op' = "FileRead"
    /\ UNCHANGED <<providerVars, remoteVars, asstVars, fileConfig, replacedId, fileRead>>

\* assistantFileResource.Read
FileRead ==
    /\ client["assistant_file"] # None
    /\ fileState # None
    /\ LET state == Get(fileState)
           id == ValueId(state.id)
           asst == ValueId(state.assistant_id)
       IN  \E err1 \in CallErrs(HasFile(id)) :
             LET getFile == Call("GetFile", EmptyId, id, err1)
             IN  IF err1 # ""
                 THEN /\ calls' = <<getFile>>
                      /\ diags' = <<Diag("Error Reading OpenAI file", id, err1)>>
                      /\ fileState' = AfterFailedRead(fileState, fileImporting)
                 ELSE \E err2 \in CallErrs(Attached(asst, id)) :
                      /\ calls' = <<getFile, Call("RetrieveAssistantFile", asst, id, err2)>>
                      /\ IF err2 # ""
                         THEN /\ diags' = <<Diag("Error Reading OpenAI assistant file", id, err2)>>
                              /\ fileState' = AfterFailedRead(fileState, fileImporting)
                         ELSE /\ diags' = <<>>
                              /\ fileState' = Some([state EXCEPT !.id = IdValue(id),
                                                                 !.assistant_id = IdValue(asst)])
    /\ fileImporting' = FALSE
    /\ op' = "FileRead"
    /\ UNCHANGED <<providerVars, remoteVars, asstVars, fileConfig, replacedId, fileRead>>

\* assistantFileResource.Update
FileUpdate ==
    /\ client["assistant_file"] # None
    /\ ~fileImporting
    /\ PlannedFileAction(fileState, fileConfig) = "update"
    /\ \E now \in Times :
         fileState' = Some([FilePlan(Get(fileConfig), fileState) EXCEPT !.last_updated = TimeValue(now)])
    /\ op' = "FileUpdate"
    /\ diags' = <<>>
    /\ calls' = <<>>
    /\ UNCHANGED <<providerVars, remoteVars, asstVars, fileImporting, fileConfig, replacedId, fileRead>>

\* Variant of FileDeleteEffects: the file is deleted before it is detached.
FileDeleteEffectsFileFirst(state, err1, err2) ==
    LET id == ValueId(state.id)
        asst == ValueId(state.assistant_id)
        detach == Call("DeleteAssistantFile", asst, id, err1)
        delete == Call("DeleteFile", EmptyId, id, err2)
    IN  IF err2 # ""
        THEN [calls |-> <<delete>>,
              diags |-> <<Diag("Error Deleting OpenAI file", EmptyId, err2)>>,
              files |-> remoteFiles, att |-> attachments, removed |-> FALSE]
        ELSE IF err1 # ""
        THEN [calls |-> <<delete, detach>>,
              diags |-> <<Diag("Error Deleting OpenAI assistant file", EmptyId, err1)>>,
              files |-> [remoteFiles EXCEPT ![id] = None], att |-> attachments, removed |-> FALSE]
        ELSE [calls |-> <<delete, detach>>, diags |-> <<>>,
              files |-> [remoteFiles EXCEPT ![id] = None],
              att |-> attachments \ {<<asst, id>>}, removed |-> TRUE]

\* Variant of FileDeleteEffects: a detach that fails is passed over.
FileDeleteEffectsPassesDetach(state, err1, err2) ==
    LET id == ValueId(state.id)
        asst == ValueId(state.assistant_id)
        detach == Call("DeleteAssistantFile", asst, id, err1)
        delete == Call("DeleteFile", EmptyId, id, err2)
    IN  IF err2 # ""
        THEN [calls |-> <<detach, delete>>,
              diags |-> <<Diag("Error Deleting OpenAI file", EmptyId, err2)>>,
              files |-> remoteFiles, att |-> attachments \ {<<asst, id>>}, removed |-> FALSE]
        ELSE [calls |-> <<detach, delete>>, diags |-> <<>>,
              files |-> [remoteFiles EXCEPT ![id] = None],
              att |-> attachments \ {<<asst, id>>}, removed |-> TRUE]

\* assistantFileResource.Delete, from the stored record and the errors of the
\* detach and of the delete-file call: the calls issued, the diagnostics, what
\* the service holds afterwards and whether the host drops the record (it does
\* when Delete reports no error).
FileDeleteEffects(state, err1, err2) ==
    LET id == ValueId(state.id)
        asst == ValueId(state.assistant_id)
        detach == Call("DeleteAssistantFile", asst, id, err1)
        delete == Call("DeleteFile", EmptyId, id, err2)
    IN  IF err1 # ""
        THEN [calls |-> <<detach>>,
              diags |-> <<Diag("Error Deleting OpenAI assistant file", EmptyId, err1)>>,
              files |-> remoteFiles, att |-> attachments, removed |-> FALSE]
        ELSE IF err2 # ""
        THEN [calls |-> <<detach, delete>>,
              diags |-> <<Diag("Error Deleting OpenAI file", EmptyId, err2)>>,
              files |-> remoteFiles, att |-> attachments \ {<<asst, id>>}, removed |-> FALSE]
        ELSE [calls |-> <<detach, delete>>, diags |-> <<>>,
              files |-> [remoteFiles EXCEPT ![id] = None],
              att |-> attachments \ {<<asst, id>>}, removed |-> TRUE]

\* assistantFileResource.Delete
FileDelete ==
    /\ client["assistant_file"] # None
    /\ ~fileImporting
    /\ PlannedFileAction(fileState, fileConfig) \in {"delete", "replace"}
    /\ LET state == Get(fileState)
           id == ValueId(state.id)
       IN  \E err1 \in CallErrs(Attached(ValueId(state.assistant_id), id)),
              err2 \in CallErrs(HasFile(id)) :
             LET e == FileDeleteEffects(state, err1, err2)
             IN  /\ calls' = e.calls
                 /\ diags' = e.diags
                 /\ remoteFiles' = e.files
                 /\ attachments' = e.att
                 /\ fileState' = IF e.removed THEN None ELSE fileState
                 /\ replacedId' = IF e.removed /\ fileConfig # None THEN id ELSE replacedId
    /\ op' = "FileDelete"
    /\ UNCHANGED <<providerVars, remoteAsst, asstCount, fileCount, nilDescKeeps, asstVars,
                   fileImporting, fileConfig, fileRead>>

\* Variant of ImportedFile: the import also names an assistant.
ImportedFileWithAssistant(id) ==
    [id |-> IdValue(id), filename |-> PathNull, assistant_id |-> IdValue(1),
     last_updated |-> TimeNull]

\* resource.ImportStatePassthroughID(ctx, path.Root("id"), req, resp)
ImportedFile(id) ==
    [id |-> IdValue(id), filename |-> PathNull, assistant_id |-> IdNull, last_updated |-> TimeNull]

\* assistantFileResource.ImportState
FileImport ==
    /\ client["assistant_file"] # None
    /\ fileState = None
    /\ \E id \in FileIds :
         fileState' = Some(ImportedFile(id))
    /\ fileImporting' = TRUE
    /\ op' = "FileImport"
    /\ diags' = <<>>
    /\ calls' = <<>>
    /\ UNCHANGED <<providerVars, remoteVars, asstVars, fileConfig, replacedId, fileRead>>

\* The declaration of the assistant-file is written, edited or removed.
EditFileDeclaration ==
    /\ ~fileImporting
    /\ fileConfig' \in {None} \cup {Some(c) : c \in FileConfigs}
    /\ fileConfig' # fileConfig
    /\ op' = "EditFileDeclaration"
    /\ diags' = <<>>
    /\ calls' = <<>>
    /\ UNCHANGED <<providerVars, remoteVars, asstVars, fileState, fileImporting, replacedId, fileRead>>

\* The remote file is deleted, or detached from its assistant, by someone else.
ExternalRemoveFile ==
    /\ \/ \E id \in FileIds :
            /\ HasFile(id)
            /\ remoteFiles' = [remoteFiles EXCEPT ![id] = None]
            /\ UNCHANGED attachments
       \/ \E a \in attachments :
            /\ attachments' = attachments \ {a}
            /\ UNCHANGED remoteFiles
    /\ op' = "ExternalRemoveFile"
    /\ diags' = <<>>
    /\ calls' = <<>>
    /\ UNCHANGED <<providerVars, remoteAsst, asstCount, fileCount, nilDescKeeps, asstVars, fileVars>>

\* ------------------------------------------------------- specifications
\* The provider is configured with the key "sk-1" and every component holds
\* its client.
ConfiguredProvider ==
    /\ cfgApiKey = StringValue("sk-1")
    /\ envApiKey = ""
    /\ configured = TRUE
    /\ resourceData = NewClient("sk-1")
    /\ dataSourceData = NewClient("sk-1")
    /\ client = [c \in Components |-> NewClient("sk-1")]
    /\ tflog = <<>>

NoFiles ==
    /\ remoteFiles = [f \in FileIds |-> None]
    /\ fileCount = 0
    /\ attachments = {}
    /\ fileState = None
    /\ fileImporting = FALSE
    /\ fileConfig = None
    /\ replacedId = EmptyId
    /\ fileRead = [err |-> FALSE, len |-> 0]

NoAssistantRecords ==
    /\ asstState = None
    /\ asstImporting = FALSE
    /\ dsState = None
    /\ createdPlan = None
    /\ updatedPlan = None
    /\ repeatedUpdate = FALSE

NoResponse ==
    /\ op = ""
    /\ diags = <<>>
    /\ calls = <<>>

\* The assistant resource's life against a service with no assistants yet.
Init ==
    /\ ConfiguredProvider
    /\ remoteAsst = [a \in AsstIds |-> None]
    /\ asstCount = 0
    /\ nilDescKeeps \in BOOLEAN
    /\ NoFiles
    /\ NoAssistantRecords
    /\ NoResponse

Next ==
    \/ AssistantCreate
    \/ AssistantRead
    \/ AssistantUpdate
    \/ AssistantDelete
    \/ ExternalDeleteAssistant
    \/ ExternalModifyAssistant

Spec == Init /\ [][Next]_vars

\* An assistant made by someone else.
SomeAssistant ==
    [name |-> <<"n1">>, description |-> <<>>, model |-> "gpt-4", instructions |-> <<"i1">>,
     tools |-> <<RetrievalTool>>]

\* The stored record of assistant 1 after a Read of SomeAssistant.
SomeAssistantRecord ==
    ReadAssistant([ImportedAssistant(1) EXCEPT !.last_updated = TimeValue(0)], 1, SomeAssistant)

\* The assistant-file resource's life, beside an assistant resource that an
\* earlier run created: the service holds assistant 1 and maybe others.
InitFile ==
    /\ ConfiguredProvider
    /\ remoteAsst \in {r \in [AsstIds -> {None, Some(SomeAssistant)}] : r[1] # None}
    /\ asstCount = MaxAssistants
    /\ nilDescKeeps = TRUE
    /\ NoFiles
    /\ asstState = Some(SomeAssistantRecord)
    /\ asstImporting = FALSE
    /\ dsState = None
    /\ createdPlan = None
    /\ updatedPlan = None
    /\ repeatedUpdate = FALSE
    /\ NoResponse

NextFile ==
    \/ EditFileDeclaration
    \/ FileCreate
    \/ FileRead
    \/ FileUpdate
    \/ FileDelete
    \/ FileImport
    \/ ExternalRemoveFile
    \/ AssistantRead
    \/ ExternalDeleteAssistant

SpecFile == InitFile /\ [][NextFile]_vars

\* The provider's configuration in a new process.
InitProvider ==
    /\ cfgApiKey \in ApiKeyConfigs
    /\ envApiKey \in EnvValues
    /\ configured = FALSE
    /\ resourceData = None
    /\ dataSourceData = None
    /\ client = [c \in Components |-> None]
    /\ tflog = <<>>
    /\ remoteAsst = [a \in AsstIds |-> None]
    /\ asstCount = 0
    /\ nilDescKeeps = TRUE
    /\ NoFiles
    /\ NoAssistantRecords
    /\ NoResponse

NextProvider ==
    \/ ProviderConfigure
    \/ \E c \in Components : ComponentConfigure(c)
    \/ NewRun

SpecProvider == InitProvider /\ [][NextProvider]_vars

\* The tool lists of an assistant made by someone else.
ToolLists == UNION {[1..n -> Tools] : n \in 0..MaxTools}

\* The assistants someone else can have made: name, description and
\* instructions are optional there.
ExternalAssistants ==
    [name : {<<>>} \cup {<<n>> : n \in Names},
     description : {<<>>} \cup {<<d>> : d \in Descriptions},
     model : Models \cup {"gpt-3.5-turbo"},
     instructions : {<<>>} \cup {<<i>> : i \in Instructions},
     tools : ToolLists]

\* The lookup and the import of an assistant that someone else made.
InitLookup ==
    /\ ConfiguredProvider
    /\ \E a \in ExternalAssistants :
         remoteAsst = [i \in AsstIds |-> IF i = 1 THEN Some(a) ELSE None]
    /\ asstCount = 1
    /\ nilDescKeeps = TRUE
    /\ NoFiles
    /\ NoAssistantRecords
    /\ NoResponse

NextLookup ==
    \/ DataSourceRead
    \/ AssistantImport
    \/ AssistantRead
    \/ ExternalModifyAssistant
    \/ ExternalDeleteAssistant

SpecLookup == InitLookup /\ [][NextLookup]_vars

\* A run in which the host has configured one of the three components, against
\* a service that is empty or that holds an assistant made by someone else (and
\* then hands out no further assistant identifier).
InitComponents ==
    /\ cfgApiKey = StringValue("sk-1")
    /\ envApiKey = ""
    /\ configured = TRUE
    /\ resourceData = NewClient("sk-1")
    /\ dataSourceData = NewClient("sk-1")
    /\ \E c \in Components :
         client = [x \in Components |-> IF x = c THEN NewClient("sk-1") ELSE None]
    /\ tflog = <<>>
    /\ \/ /\ remoteAsst = [a \in AsstIds |-> None]
          /\ asstCount = 0
       \/ /\ remoteAsst = [a \in AsstIds |-> IF a = 1 THEN Some(SomeAssistant) ELSE None]
          /\ asstCount = MaxAssistants
    /\ nilDescKeeps = TRUE
    /\ NoFiles
    /\ NoAssistantRecords
    /\ NoResponse

\* Every handler of the three components, and the environment.
NextComponents ==
    \/ AssistantCreate
    \/ AssistantRead
    \/ AssistantUpdate
    \/ AssistantDelete
    \/ AssistantImport
    \/ DataSourceRead
    \/ client["assistant_file"] # None /\ EditFileDeclaration
    \/ FileCreate
    \/ FileRead
    \/ FileUpdate
    \/ FileDelete
    \/ FileImport
    \/ ExternalRemoveFile
    \/ ExternalDeleteAssistant
    \/ ExternalModifyAssistant

SpecComponents == InitComponents /\ [][NextComponents]_vars

\* ------------------------------------------------------------- properties
CreatedFields == {"name", "model", "instructions", "description",
                  "enable_retrieval", "enable_code_interpreter"}

\* C1: a successful Create followed by successful Reads, nothing else having
\* touched the record or the remote assistant, leaves the stored record with
\* the plan's name, model, instructions, description and flags; enable_retrieval
\* is true exactly when the plan had it true.
C1_CreateThenRead ==
    (op = "AssistantRead" /\ diags = <<>> /\ createdPlan # None) =>
        /\ \A f \in CreatedFields : Get(asstState)[f] = Get(createdPlan)[f]
        /\ ValueBool(Get(asstState).enable_retrieval) = ValueBool(Get(createdPlan).enable_retrieval)

C1_Witness ==
    /\ op = "AssistantRead" /\ diags = <<>> /\ createdPlan # None
    /\ Get(asstState).enable_retrieval = BoolValue(TRUE)
    /\ Get(asstState).enable_code_interpreter = BoolValue(FALSE)
    /\ Get(asstState).description = StringNull

\* The flags that the tags of a tool list stand for.
FlagsOfTags(tools) ==
    <<AssistantToolTypeRetrieval \in ToolTags(tools),
      AssistantToolTypeCodeInterpreter \in ToolTags(tools)>>

FlagsOf(rec) == <<rec.enable_retrieval, rec.enable_code_interpreter>>

\* C2: after a successful Read of the resource, and after a successful Read of
\* the data source, the two flags are known values fixed by which tags are in
\* the response's tool list, whatever its order and duplicates: both Reads
\* compute the same pair for the same response.
C2_FlagsFromTags ==
    /\ (op = "AssistantRead" /\ diags = <<>>) =>
          LET t == FlagsOfTags(Get(remoteAsst[calls[1].asst]).tools)
          IN  FlagsOf(Get(asstState)) = <<BoolValue(t[1]), BoolValue(t[2])>>
    /\ (op = "DataSourceRead" /\ diags = <<>>) =>
          LET t == FlagsOfTags(Get(remoteAsst[calls[1].asst]).tools)
          IN  FlagsOf(Get(dsState)) = <<BoolValue(t[1]), BoolValue(t[2])>>

C2_Witness ==
    /\ op = "DataSourceRead" /\ diags = <<>>
    /\ asstState # None /\ ~asstImporting
    /\ Get(remoteAsst[1]).tools = <<CodeInterpreterTool, CodeInterpreterTool>>
    /\ FlagsOf(Get(dsState)) = <<BoolValue(FALSE), BoolValue(TRUE)>>
    /\ FlagsOf(Get(asstState)) = FlagsOf(Get(dsState))

CallNames(cs) == [i \in 1..Len(cs) |-> cs[i].fn]

\* C3: the Update handler of the assistant-file never runs with a filename or
\* an assistant_id that differs from the stored one, and no step changes either
\* in a record that stays in state: the change is a Delete (detach, then
\* delete-file) that removes the record and a Create (upload, then attach) that
\* stores a new one, whose id differs from the id of the record replaced.
C3_ReplaceOnChange ==
    [][ /\ (fileState # None /\ fileState' # None) =>
              /\ Get(fileState').filename = Get(fileState).filename
              /\ ValueId(Get(fileState').assistant_id) = ValueId(Get(fileState).assistant_id)
        /\ op' = "FileUpdate" =>
              /\ PlannedFileAction(fileState, fileConfig) # "replace"
              /\ \A a \in {"filename", "assistant_id"} : Get(fileConfig)[a] = Get(fileState)[a]
              /\ calls' = <<>>
        /\ (PlannedFileAction(fileState, fileConfig) = "replace" /\ ~fileImporting
                /\ fileState' = None) =>
              /\ op' = "FileDelete"
              /\ CallNames(calls') = <<"DeleteAssistantFile", "DeleteFile">>
              /\ replacedId' = ValueId(Get(fileState).id)
        /\ (op' = "FileCreate" /\ fileState' # None) =>
              /\ CallNames(calls') = <<"CreateFileBytes", "CreateAssistantFile">>
              /\ ValueId(Get(fileState').id) # replacedId
              /\ \A a \in {"filename", "assistant_id"} : Get(fileState')[a] = Get(fileConfig)[a]
      ]_vars

C3_Witness ==
    /\ op = "FileCreate" /\ diags = <<>> /\ fileState # None
    /\ replacedId # EmptyId

\* C4: Create of an assistant-file whose local file reads as zero bytes fails
\* with "File is empty", stores nothing and issues no remote call.
C4_EmptyFile ==
    (op = "FileCreate" /\ fileRead = [err |-> FALSE, len |-> 0]) =>
        /\ Len(diags) = 1 /\ diags[1].summary = "File is empty"
        /\ calls = <<>>
        /\ fileState = None

C4_Witness ==
    /\ op = "FileCreate" /\ fileRead = [err |-> FALSE, len |-> 0]
    /\ diags # <<>> /\ diags[1].summary = "File is empty"
    /\ fileCount = 0

\* C5: when the upload of an assistant-file Create succeeds and the attach
\* fails, the Create reports an error, stores no record, issues no delete of
\* the upload, and the uploaded file stays on the service, attached to nothing
\* and named by no stored record.
C5_AttachFails ==
    (op = "FileCreate" /\ Len(calls) >= 2 /\ calls[1].err = "" /\ calls[2].err # "") =>
        /\ diags # <<>> /\ diags[1].summary = "Error creating assistant file"
        /\ fileState = None
        /\ CallNames(calls) = <<"CreateFileBytes", "CreateAssistantFile">>
        /\ HasFile(calls[2].file)
        /\ ~\E a \in AsstIds : Attached(a, calls[2].file)

C5_Witness ==
    /\ op = "FileCreate" /\ Len(calls) = 2 /\ calls[2].err # ""
    /\ fileState = None /\ HasFile(calls[2].file)

\* What the provider hands on: nothing, or a client with this key.
HandsNoClient ==
    resourceData = None /\ dataSourceData = None /\ \A c \in Components : client[c] = None

HandsClient(key) ==
    /\ resourceData = NewClient(key) /\ dataSourceData = NewClient(key)
    /\ \A c \in Components : client[c] \in {None, NewClient(key)}

\* C6, as claimed: a non-empty explicit api_key is used, anything else falls
\* back to the environment, and Configure fails exactly when neither is
\* non-empty; an empty explicit api_key with a key in the environment resolves
\* to the environment.
C6_FallbackWhenEmpty ==
    (configured /\ cfgApiKey.k # "unknown") =>
        LET key == IF cfgApiKey.k = "value" /\ cfgApiKey.v # "" THEN cfgApiKey.v ELSE envApiKey
        IN  IF key = "" THEN HandsNoClient ELSE HandsClient(key)

\* C6, amended: an explicit api_key that is not null is used as it is, empty
\* or not, and the environment is read only when api_key is null; Configure
\* fails with "Missing OpenAI API key" and hands on no client exactly when the
\* value so chosen is empty.
C6_ExplicitWinsEvenEmpty ==
    configured =>
        /\ (cfgApiKey.k = "value" /\ cfgApiKey.v # "") => HandsClient(cfgApiKey.v)
        /\ (cfgApiKey.k = "null" /\ envApiKey # "") => HandsClient(envApiKey)
        /\ (cfgApiKey.k = "null" /\ envApiKey = "") => HandsNoClient
        /\ (cfgApiKey.k # "null" /\ cfgApiKey.v = "") => HandsNoClient
        /\ op = "ProviderConfigure" => (diags = <<MissingApiKey>> <=> HandsNoClient)
        /\ op = "ProviderConfigure" => (diags = <<>> <=> ~HandsNoClient)

C6_Witness ==
    /\ op = "ProviderConfigure"
    /\ cfgApiKey = StringValue("") /\ envApiKey # ""
    /\ diags = <<MissingApiKey>> /\ HandsNoClient

\* What an observer sees of a remote assistant.
Observable(a) ==
    [name |-> a.name, description |-> a.description, model |-> a.model,
     instructions |-> a.instructions, tags |-> ToolTags(a.tools)]

\* The plan (or record) holds what the remote assistant holds.
MatchesRemote(rec, a) ==
    /\ ValueStringPointer(rec.name) = a.name
    /\ ValueStringPointer(rec.description) = a.description
    /\ ValueString(rec.model) = a.model
    /\ ValueStringPointer(rec.instructions) = a.instructions
    /\ <<ValueBool(rec.enable_retrieval), ValueBool(rec.enable_code_interpreter)>> = FlagsOfTags(a.tools)

\* The two records differ in last_updated at most.
SameButTimestamp(r1, r2) == [r1 EXCEPT !.last_updated = TimeNull] = [r2 EXCEPT !.last_updated = TimeNull]

\* A successful Update; its plan is then Get(updatedPlan').
UpdateSucceeds == op' = "AssistantUpdate" /\ diags' = <<>> /\ updatedPlan' # None

\* C7, as claimed: a successful Update whose plan equals what the remote
\* assistant holds leaves the remote assistant as it was, and changes
\* last_updated only in the stored record.
C7_UnchangedPlanNoEffect ==
    [][ LET id == ValueId(Get(asstState).id)
        IN  (UpdateSucceeds /\ MatchesRemote(Get(updatedPlan'), Get(remoteAsst[id]))) =>
              /\ Observable(Get(remoteAsst'[id])) = Observable(Get(remoteAsst[id]))
              /\ SameButTimestamp(Get(asstState'), Get(asstState))
      ]_vars

\* C7, amended: a successful Update whose plan equals what the remote assistant
\* holds leaves the remote assistant as it was if its tool list holds retrieval
\* and code-interpreter tools only, and changes last_updated only in the stored
\* record if the plan also equals the stored record.  The same Update applied
\* once more leaves the remote assistant as the first left it.
C7_UnchangedPlanKnownTools ==
    [][ LET id == ValueId(Get(asstState).id)
        IN  /\ (UpdateSucceeds /\ MatchesRemote(Get(updatedPlan'), Get(remoteAsst[id]))) =>
                 /\ ToolTags(Get(remoteAsst[id]).tools)
                        \subseteq {AssistantToolTypeRetrieval, AssistantToolTypeCodeInterpreter}
                      => Observable(Get(remoteAsst'[id])) = Observable(Get(remoteAsst[id]))
                 /\ SameButTimestamp(Get(updatedPlan'), Get(asstState))
                      => SameButTimestamp(Get(asstState'), Get(asstState))
                 /\ remoteAsst'[id] # None
            /\ (UpdateSucceeds /\ repeatedUpdate') => remoteAsst' = remoteAsst
      ]_vars

C7_Witness ==
    /\ op = "AssistantUpdate" /\ diags = <<>> /\ repeatedUpdate
    /\ MatchesRemote(Get(asstState), Get(remoteAsst[ValueId(Get(asstState).id)]))
    /\ Get(asstState).last_updated = TimeValue(1)

\* C8: Delete of an assistant-file detaches before it deletes the file, the
\* reverse of Create's upload before attach; a failed detach ends it with no
\* delete-file call; the record leaves the state only when both calls succeed;
\* when the detach succeeds and the delete-file fails, an error is reported, the
\* record stays, the file is no longer attached and the service keeps the file.
C8_DetachThenDelete ==
    [][ /\ op' = "FileDelete" =>
             LET id == ValueId(Get(fileState).id)
                 asst == ValueId(Get(fileState).assistant_id)
             IN  /\ Len(calls') \in {1, 2}
                 /\ calls'[1] = Call("DeleteAssistantFile", asst, id, calls'[1].err)
                 /\ calls'[1].err # "" =>
                      /\ Len(calls') = 1 /\ diags' # <<>>
                      /\ fileState' = fileState
                      /\ remoteFiles' = remoteFiles /\ attachments' = attachments
                 /\ calls'[1].err = "" =>
                      /\ Len(calls') = 2
                      /\ calls'[2] = Call("DeleteFile", EmptyId, id, calls'[2].err)
                      /\ <<asst, id>> \notin attachments'
                 /\ (Len(calls') = 2 /\ calls'[2].err # "") =>
                      /\ diags' # <<>> /\ diags'[1].summary = "Error Deleting OpenAI file"
                      /\ fileState' = fileState
                      /\ remoteFiles' = remoteFiles
                 /\ fileState' = None <=>
                      (Len(calls') = 2 /\ calls'[1].err = "" /\ calls'[2].err = "")
                 /\ fileState' = None => (diags' = <<>> /\ remoteFiles'[id] = None)
        /\ (op' = "FileCreate" /\ calls' # <<>>) =>
             /\ calls'[1].fn = "CreateFileBytes"
             /\ Len(calls') = 2 => calls'[2].fn = "CreateAssistantFile"
      ]_vars

C8_Witness ==
    /\ op = "FileDelete" /\ Len(calls) = 2 /\ calls[2].err = "server_error"
    /\ fileState # None /\ diags # <<>>
    /\ HasFile(ValueId(Get(fileState).id))
    /\ ~Attached(ValueId(Get(fileState).assistant_id), ValueId(Get(fileState).id))

\* The stored fields that a response stands for, all of them overwritten.
Overwritten(id, a) ==
    [id |-> IdValue(id), name |-> StringValue(a.name[1]),
     description |-> IF a.description = <<>> THEN StringNull ELSE StringValue(a.description[1]),
     model |-> StringValue(a.model), instructions |-> StringValue(a.instructions[1]),
     enable_retrieval |-> BoolValue(FlagsOfTags(a.tools)[1]),
     enable_code_interpreter |-> BoolValue(FlagsOfTags(a.tools)[2])]

\* C9: after a successful Read of the assistant, every stored field that
\* mirrors the remote assistant holds what the response holds; a stored
\* description does not outlive a response without one.
C9_ReadOverwritesAll ==
    (op = "AssistantRead" /\ diags = <<>>) =>
        LET id == calls[1].asst
            new == Overwritten(id, Get(remoteAsst[id]))
        IN  \A f \in DOMAIN new : Get(asstState)[f] = new[f]

\* C10: a Read of a stored record whose remote assistant (or remote file, or
\* attachment) is gone reports an error and leaves the record as it was; no
\* Read of a stored record removes it; and what is gone stays gone.
C10_ReadKeepsRecord ==
    [][ /\ (op' = "AssistantRead" /\ ~asstImporting) =>
             /\ asstState' # None
             /\ ~HasAssistant(ValueId(Get(asstState).id)) =>
                  (diags' # <<>> /\ asstState' = asstState)
        /\ (op' = "FileRead" /\ ~fileImporting) =>
             /\ fileState' # None
             /\ (\/ ~HasFile(ValueId(Get(fileState).id))
                 \/ ~Attached(ValueId(Get(fileState).assistant_id), ValueId(Get(fileState).id))) =>
                  (diags' # <<>> /\ fileState' = fileState)
        /\ \A a \in AsstIds : (a <= asstCount /\ ~HasAssistant(a)) => remoteAsst'[a] = None
        /\ \A f \in FileIds : (f <= fileCount /\ ~HasFile(f)) => remoteFiles'[f] = None
        /\ \A a \in AsstIds, f \in FileIds :
             (f <= fileCount /\ ~Attached(a, f)) => <<a, f>> \notin attachments'
      ]_vars

C10_Witness ==
    /\ op = "FileRead" /\ diags # <<>> /\ diags[1].err = "not_found"
    /\ fileState # None /\ ~fileImporting
    /\ asstState # None /\ ~HasAssistant(ValueId(Get(asstState).id))

\* The handlers that issue remote calls.
RemoteHandlers ==
    {"AssistantCreate", "AssistantRead", "AssistantUpdate", "AssistantDelete", "DataSourceRead",
     "FileCreate", "FileRead", "FileUpdate", "FileDelete"}

\* C11: in every handler of the assistant resource, of the assistant-file
\* resource and of the lookup, no remote call is issued twice, only the last
\* call issued can have failed, and a failed call leaves exactly one error
\* diagnostic, which carries the call's error message: no handler that saw a
\* remote failure reports success.
C11_FirstFailureEnds ==
    op \in RemoteHandlers =>
        /\ \A i, j \in 1..Len(calls) : calls[i].fn = calls[j].fn => i = j
        /\ \A i \in 1..Len(calls) : calls[i].err # "" =>
              /\ i = Len(calls)
              /\ Len(diags) = 1
              /\ diags[1].err = calls[i].err

C11_Witness ==
    /\ op = "AssistantDelete" /\ Len(calls) = 1 /\ calls[1].err = "server_error"
    /\ diags # <<>> /\ diags[1].err = "server_error"
    /\ asstState # None

\* The text of a log entry or of a diagnostic holds the string.
LogMentions(entry, str) ==
    \/ entry.msg = str
    \/ \E f \in entry.fields : f[1] = str \/ f[2] = str

DiagMentions(d, str) == d.summary = str \/ d.err = str

\* What Configure emits when it finds no key, and when it finds one.
OutputMissingKey ==
    << <<LogEntry("info", "Configuring OpenAi client", {})>>, <<MissingApiKey>> >>

OutputConfigured ==
    << <<LogEntry("info", "Configuring OpenAi client", {}),
         LogEntry("debug", "Creating OpenAI client", {}),
         LogEntry("info", "Configured OpenAI client", {<<"success", "true">>})>>, <<>> >>

\* C12: whatever the credential and however Configure ends, no log entry and no
\* diagnostic of Configure holds a credential value, and what Configure emits
\* is fixed by whether it found a key, not by the key: two runs that differ in
\* the key only emit the same log and the same diagnostics.
C12_KeyNeverEmitted ==
    /\ \A key \in ApiKeys :
          /\ \A i \in 1..Len(tflog) : ~LogMentions(tflog[i], key)
          /\ op = "ProviderConfigure" => \A i \in 1..Len(diags) : ~DiagMentions(diags[i], key)
    /\ op = "ProviderConfigure" =>
          <<tflog, diags>> = IF ResolveApiKey(cfgApiKey, envApiKey) = ""
                             THEN OutputMissingKey ELSE OutputConfigured

C12_Witness ==
    /\ op = "ProviderConfigure" /\ diags = <<>>
    /\ cfgApiKey = StringNull /\ envApiKey = "sk-2"
    /\ resourceData = NewClient("sk-2")
    /\ Len(tflog) = 3

\* The remote assistant holds what the request carried (a description only if
\* the request carried one).
HoldsRequest(a, req) ==
    /\ a.name = req.name /\ a.model = req.model
    /\ a.instructions = req.instructions /\ a.tools = req.tools
    /\ req.description # <<>> => a.description = req.description

\* C13: Update issues the modify call and then, only if it succeeded, the
\* retrieve call for the same identifier; it replaces the stored record by the
\* plan with a last_updated of its own exactly when both succeed, and leaves the
\* stored record as it was when either fails; after a modify that succeeded and
\* a retrieve that failed, the remote assistant holds the plan's attributes and
\* the stored record the old ones.
C13_ModifyThenRetrieve ==
    [][ op' = "AssistantUpdate" =>
          LET id == ValueId(Get(asstState).id)
              ok == Len(calls') = 2 /\ calls'[2].err = ""
          IN  /\ Len(calls') \in {1, 2}
              /\ calls'[1] = Call("ModifyAssistant", id, EmptyId, calls'[1].err)
              /\ Len(calls') = 2 <=> calls'[1].err = ""
              /\ Len(calls') = 2 => calls'[2] = Call("RetrieveAssistant", id, EmptyId, calls'[2].err)
              /\ ok <=> diags' = <<>>
              /\ ~ok => asstState' = asstState
              /\ ok => /\ updatedPlan' # None
                       /\ Get(updatedPlan').id = Get(asstState).id
                       /\ \E t \in Times :
                            asstState' = Some([Get(updatedPlan') EXCEPT !.last_updated = TimeValue(t)])
                       /\ HoldsRequest(Get(remoteAsst'[id]), AssistantRequest(Get(updatedPlan')))
              /\ calls'[1].err # "" => remoteAsst' = remoteAsst
              /\ (Len(calls') = 2 /\ calls'[2].err # "") =>
                    \E cfg \in AssistantConfigs :
                       HoldsRequest(Get(remoteAsst'[id]),
                                    AssistantRequest(AssistantPlan(cfg, asstState)))
      ]_vars

C13_Witness ==
    /\ op = "AssistantUpdate" /\ Len(calls) = 2 /\ calls[2].err = "server_error"
    /\ diags # <<>>
    /\ LET id == ValueId(Get(asstState).id)
       IN  /\ HasAssistant(id)
           /\ Get(remoteAsst[id]).name # ValueStringPointer(Get(asstState).name)

\* The tool list holds the tool once if the flag is true, not at all otherwise.
ToolIffFlag(tools, tool, flag) ==
    /\ flag \in {BoolValue(TRUE), BoolValue(FALSE)}
    /\ Cardinality({i \in 1..Len(tools) : tools[i] = tool}) = (IF ValueBool(flag) THEN 1 ELSE 0)

\* C14: Create issues one create call and nothing else; when it fails nothing
\* is stored; when it succeeds the service holds a tool list with the retrieval
\* tool iff enable_retrieval and the code-interpreter tool iff
\* enable_code_interpreter (each flag a known value, false when not declared)
\* and no other tool, and the stored record is the plan with the identifier the
\* service returned and a last_updated; the plan with enable_retrieval alone is
\* stored with enable_retrieval true and enable_code_interpreter false.
C14_CreateStoresPlan ==
    op = "AssistantCreate" =>
        /\ Len(calls) = 1 /\ calls[1].fn = "CreateAssistant"
        /\ calls[1].err # "" <=> diags # <<>>
        /\ diags # <<>> => (asstState = None /\ createdPlan = None)
        /\ diags = <<>> =>
             LET rec == Get(asstState)
                 id == ValueId(rec.id)
                 sent == Get(remoteAsst[id]).tools
             IN  /\ rec.id = IdValue(asstCount) /\ HasAssistant(id)
                 /\ rec.last_updated \in {TimeValue(t) : t \in Times}
                 /\ createdPlan # None
                 /\ Get(createdPlan).id = IdUnknown
                 /\ [rec EXCEPT !.id = IdUnknown, !.last_updated = TimeUnknown] = Get(createdPlan)
                 /\ ToolIffFlag(sent, RetrievalTool, rec.enable_retrieval)
                 /\ ToolIffFlag(sent, CodeInterpreterTool, rec.enable_code_interpreter)
                 /\ ToolTags(sent) \subseteq {AssistantToolTypeRetrieval, AssistantToolTypeCodeInterpreter}
                 /\ HoldsRequest(Get(remoteAsst[id]), AssistantRequest(Get(createdPlan)))

C14_Witness ==
    /\ op = "AssistantCreate" /\ diags = <<>>
    /\ Get(asstState).enable_retrieval = BoolValue(TRUE)
    /\ Get(asstState).enable_code_interpreter = BoolValue(FALSE)
    /\ Get(asstState).id = IdValue(1)
    /\ Get(remoteAsst[1]).tools = <<RetrievalTool>>

\* C15: Read of an assistant-file issues GetFile for the stored id and then,
\* only if it succeeded, RetrieveAssistantFile for the stored assistant id and
\* id; a failure of either is reported and leaves the stored record as it was
\* (an import waiting for this Read stores nothing); on success id and
\* assistant_id are those of the attachment queried, filename and last_updated
\* are the stored ones; the service is left alone.
C15_FileThenAttachment ==
    [][ op' = "FileRead" =>
          LET state == Get(fileState)
              id == ValueId(state.id)
              asst == ValueId(state.assistant_id)
              ok == Len(calls') = 2 /\ calls'[2].err = ""
          IN  /\ Len(calls') \in {1, 2}
              /\ calls'[1] = Call("GetFile", EmptyId, id, calls'[1].err)
              /\ Len(calls') = 2 <=> calls'[1].err = ""
              /\ Len(calls') = 2 =>
                   calls'[2] = Call("RetrieveAssistantFile", asst, id, calls'[2].err)
              /\ ok <=> diags' = <<>>
              /\ ~ok => fileState' = (IF fileImporting THEN None ELSE fileState)
              /\ ok => /\ fileState' # None
                       /\ Get(fileState').id = IdValue(id)
                       /\ Get(fileState').assistant_id = IdValue(asst)
                       /\ <<asst, id>> \in attachments
                       /\ Get(fileState').filename = state.filename
                       /\ Get(fileState').last_updated = state.last_updated
              /\ UNCHANGED remoteVars
      ]_vars

C15_Witness ==
    /\ op = "FileRead" /\ Len(calls) = 1 /\ calls[1].err = "not_found"
    /\ fileState # None /\ Get(fileState).filename # PathNull
    /\ Attached(ValueId(Get(fileState).assistant_id), ValueId(Get(fileState).id))

\* C16: Update of an assistant-file issues no remote call, reports no error and
\* leaves the service as it was; the record it stores is the plan with a
\* last_updated of its own: the stored id, and the declared filename and
\* assistant_id.
C16_UpdateTouchesNothing ==
    [][ op' = "FileUpdate" =>
          /\ calls' = <<>> /\ diags' = <<>>
          /\ UNCHANGED remoteVars
          /\ fileState # None /\ fileConfig # None /\ fileState' # None
          /\ Get(fileState').id = Get(fileState).id
          /\ Get(fileState').id \in {IdValue(f) : f \in FileIds}
          /\ Get(fileState').filename = Get(fileConfig).filename
          /\ Get(fileState').assistant_id = Get(fileConfig).assistant_id
          /\ Get(fileState').last_updated \in {TimeValue(t) : t \in Times}
      ]_vars

C16_Witness ==
    /\ op = "FileUpdate" /\ fileState # None
    /\ Get(fileState).last_updated = TimeValue(1)
    /\ HasFile(ValueId(Get(fileState).id))

\* C17: a Delete of an assistant-file whose detach succeeded and whose
\* delete-file failed leaves the record in state, the file detached and the
\* service's files as they were; and a Delete of a record whose file is not
\* attached to its assistant, the service rejecting that detach, issues the
\* detach call alone, fails, keeps the record and deletes no file: no Delete
\* can remove the record or the file from then on.
C17_RetryStopsAtDetach ==
    [][ op' = "FileDelete" =>
          LET id == ValueId(Get(fileState).id)
              asst == ValueId(Get(fileState).assistant_id)
          IN  /\ calls'[1].fn = "DeleteAssistantFile"
              /\ (Len(calls') = 2 /\ calls'[1].err = "" /\ calls'[2].err # "") =>
                    /\ fileState' = fileState
                    /\ <<asst, id>> \notin attachments'
                    /\ remoteFiles' = remoteFiles
              /\ ~Attached(asst, id) =>
                    /\ calls' = <<Call("DeleteAssistantFile", asst, id, "not_found")>>
                    /\ diags' # <<>>
                    /\ fileState' = fileState
                    /\ remoteFiles' = remoteFiles
                    /\ attachments' = attachments
      ]_vars

C17_Witness ==
    /\ op = "FileDelete" /\ calls = <<Call("DeleteAssistantFile", 1, 1, "not_found")>>
    /\ fileState # None /\ Get(fileState).id = IdValue(1)
    /\ HasFile(1) /\ ~Attached(1, 1)
    /\ HasAssistant(1)

\* C18: Import of an assistant-file stores the supplied identifier as id and
\* leaves filename, assistant_id and last_updated null, so the Read that follows
\* queries the attachment with the empty assistant identifier, and the record
\* is kept, with the assistant_id of the response, only if that query succeeds.
\* Import of an assistant stores the supplied identifier as id and nothing
\* else, and the successful Read that follows fills every field that mirrors
\* the remote assistant from the response.
C18_ImportSetsIdOnly ==
    [][ /\ op' = "FileImport" =>
             /\ fileState' # None
             /\ Get(fileState').id \in {IdValue(f) : f \in FileIds}
             /\ Get(fileState').assistant_id = IdNull
             /\ Get(fileState').filename = PathNull
             /\ Get(fileState').last_updated = TimeNull
             /\ calls' = <<>>
        /\ (fileImporting /\ op' = "FileRead") =>
             LET id == ValueId(Get(fileState).id)
             IN  /\ calls'[1] = Call("GetFile", EmptyId, id, calls'[1].err)
                 /\ Len(calls') = 2 =>
                      calls'[2] = Call("RetrieveAssistantFile", EmptyId, id, calls'[2].err)
                 /\ fileState' # None => (Len(calls') = 2 /\ calls'[2].err = "")
                 /\ (Len(calls') < 2 \/ calls'[Len(calls')].err # "") => fileState' = None
        /\ op' = "AssistantImport" =>
             /\ asstState' # None
             /\ Get(asstState').id \in {IdValue(a) : a \in AsstIds}
             /\ \A f \in DOMAIN Get(asstState') \ {"id"} : Get(asstState')[f].k = "null"
             /\ calls' = <<>>
        /\ (asstImporting /\ op' = "AssistantRead" /\ diags' = <<>>) =>
             LET id == ValueId(Get(asstState).id)
                 new == Overwritten(id, Get(remoteAsst[id]))
             IN  /\ calls' = <<Call("RetrieveAssistant", id, EmptyId, "")>>
                 /\ \A f \in DOMAIN new : Get(asstState')[f] = new[f]
                 /\ Get(asstState').last_updated = TimeNull
      ]_vars

C18_Witness ==
    /\ op = "FileRead" /\ Len(calls) = 2
    /\ calls[2] = Call("RetrieveAssistantFile", EmptyId, calls[1].file, "not_found")
    /\ HasFile(calls[1].file)
    /\ fileState = None /\ diags # <<>>

====
